---- MODULE Spec2Model ----
(***************************************************************************)
(* nuxi's runCommand (packages/nuxi/src/run.ts) as a state machine, with   *)
(* the argv parser it calls, the command registry it reads, and the head   *)
(* configuration documented in the SEO and Meta guide.                     *)
(*                                                                         *)
(* A JavaScript string is a sequence of one-character strings, so that the *)
(* parser's character tests and substrings are computed, not assumed.      *)
(* A JavaScript value is a record [type, chars, items]: a boolean, number  *)
(* or string keeps its text in chars, an array keeps its elements in       *)
(* items, undefined keeps nothing.  An object is a function from its keys  *)
(* (strings) to values.                                                    *)
(***************************************************************************)
EXTENDS Integers, Sequences, FiniteSets, TLC

VARIABLES
  pc,          \* pc[c]: where call c of runCommand stands
  command,     \* command[c]: the call's first parameter
  argv,        \* argv[c]: the call's second parameter, given or left undefined
  options,     \* options[c]: the call's third parameter, an object or undefined
  heap,        \* the objects mri has allocated: object id -> object
  argsRef,     \* argsRef[c]: the object the call's `args` refers to (0: none yet)
  loaderCalls, \* loaderCalls[c]: the properties of `commands` the call has called, in order
  cmd,         \* cmd[c]: what the awaited `commands[command]()` gave
  invokeCalls, \* invokeCalls[c]: every invoke the call made: the command, the args object and what it held
  invokeResult,\* invokeResult[c]: what invoke gave: its return or throw, or how its promise settled
  outcome,     \* outcome[c]: how the call's promise settled
  head,        \* app.head of nuxt.config, as written by the user
  resolvedHead,\* the effective app head
  title,       \* the title a component gave last (undefined: none yet)
  titleTemplate,\* the titleTemplate a component gave (undefined: none)
  documentTitle \* the title the document shows

runVars == <<pc, command, argv, options, heap, argsRef, loaderCalls, cmd, invokeCalls,
             invokeResult, outcome>>
headVars == <<head, resolvedHead, title, titleTemplate, documentTitle>>
vars == <<pc, command, argv, options, heap, argsRef, loaderCalls, cmd, invokeCalls,
          invokeResult, outcome,
          head, resolvedHead, title, titleTemplate, documentTitle>>

\* ---------------------------------------------------------------- bounds

\* The longest argv a call is given.
MaxArgv == 3
\* The number of runCommand calls that may be in flight together.
NCalls == 2

Calls == 1..NCalls

\* ------------------------------------------------------------ JS values

Undefined == [type |-> "undefined", chars |-> <<>>, items |-> <<>>]
True == [type |-> "boolean", chars |-> <<"t", "r", "u", "e">>, items |-> <<>>]
False == [type |-> "boolean", chars |-> <<"f", "a", "l", "s", "e">>, items |-> <<>>]
Str(s) == [type |-> "string", chars |-> s, items |-> <<>>]
Arr(xs) == [type |-> "array", chars |-> <<>>, items |-> xs]

\* An argument of a call: given with a value, or undefined.
Given(v) == [given |-> TRUE, value |-> v]
NotGiven == [given |-> FALSE, value |-> <<>>]

Digits == {"0", "1", "2", "3", "4", "5", "6", "7", "8", "9"}

\* Number(s) is finite (mri's `x * 0 === 0`) for a string of decimal digits, the
\* empty string included (Number('') is 0).  The argv alphabet below holds no
\* sign, point, exponent, radix prefix or blank, so these are all the numeric
\* strings a call can meet.
IsNumeric(s) == \A k \in 1..Len(s) : s[k] \in Digits

RECURSIVE StripZeros(_)
StripZeros(s) ==
  IF Len(s) = 0 THEN <<"0">>
  ELSE IF Len(s) > 1 /\ s[1] = "0" THEN StripZeros(Tail(s))
  ELSE s

\* The number a numeric string converts to, kept as its canonical decimal text.
Num(s) == [type |-> "number", chars |-> StripZeros(s), items |-> <<>>]

Min2(a, b) == IF a < b THEN a ELSE b
Max2(a, b) == IF a > b THEN a ELSE b

\* String.prototype.substring(a, b), indices from 0, clamped to the string.
Substring(s, a, b) ==
  LET ca == Min2(Max2(a, 0), Len(s))
      cb == Min2(Max2(b, 0), Len(s))
      lo == Min2(ca, cb)
      hi == Max2(ca, cb)
  IN SubSeq(s, lo + 1, hi)

\* obj[key] = val
Put(obj, key, val) ==
  [k \in (DOMAIN obj) \cup {key} |-> IF k = key THEN val ELSE obj[k]]

\* ------------------------------------------------------------------ mri

Underscore == <<"_">>

\* for (j=0; j < arg.length; j++) if (arg.charCodeAt(j) !== 45) break
RECURSIVE CountDashes(_, _)
CountDashes(arg, j) ==
  IF j < Len(arg) /\ arg[j + 1] = "-" THEN CountDashes(arg, j + 1) ELSE j

\* for (idx=j+1; idx < arg.length; idx++) if (arg.charCodeAt(idx) === 61) break
RECURSIVE FindEq(_, _)
FindEq(arg, idx) ==
  IF idx < Len(arg) /\ arg[idx + 1] # "=" THEN FindEq(arg, idx + 1) ELSE idx

\* toVal(out, key, val, opts) with no string or boolean option declared.
toVal(out, key, val) ==
  LET nxt == IF val.type = "boolean" THEN val
             ELSE IF IsNumeric(val.chars) THEN Num(val.chars)
             ELSE val
      old == IF key \in DOMAIN out THEN out[key] ELSE Undefined
  IN Put(out, key,
         IF old.type = "undefined" THEN nxt
         ELSE IF old.type = "array" THEN Arr(Append(old.items, nxt))
         ELSE Arr(<<old, nxt>>))

\* for (idx=0; idx < arr.length; idx++) toVal(out, arr[idx], (idx + 1 < arr.length) || val)
RECURSIVE toValEach(_, _, _, _)
toValEach(out, arr, idx, val) ==
  IF idx >= Len(arr) THEN out
  ELSE toValEach(toVal(out, arr[idx + 1], IF idx + 1 < Len(arr) THEN True ELSE val),
                 arr, idx + 1, val)

\* The body of mri's loop over args, from position i (from 1) on.
RECURSIVE mriLoop(_, _, _)
mriLoop(args, i, out) ==
  IF i > Len(args) THEN out
  ELSE
    LET arg == args[i]
        j == CountDashes(arg, 0)
    IN
    IF arg = <<"-", "-">> THEN
      Put(out, Underscore,
          Arr(out[Underscore].items \o [k \in 1..(Len(args) - i) |-> Str(args[i + k])]))
    ELSE IF j = 0 THEN
      mriLoop(args, i + 1, Put(out, Underscore, Arr(Append(out[Underscore].items, Str(arg)))))
    ELSE IF Substring(arg, j, j + 3) = <<"n", "o", "-">> THEN
      mriLoop(args, i + 1, Put(out, Substring(arg, j + 3, Len(arg)), False))
    ELSE
      LET idx == FindEq(arg, j + 1)
          name == Substring(arg, j, idx)
          inline == Substring(arg, idx + 1, Len(arg))
          takesNext == /\ inline = <<>>
                       /\ i < Len(args)
                       /\ ~(Len(args[i + 1]) > 0 /\ args[i + 1][1] = "-")
          val == IF inline # <<>> THEN Str(inline)
                 ELSE IF takesNext THEN Str(args[i + 1])
                 ELSE True
          arr == IF j = 2 THEN <<name>> ELSE [k \in 1..Len(name) |-> <<name[k]>>]
      IN mriLoop(args, IF takesNext THEN i + 2 ELSE i + 1, toValEach(out, arr, 0, val))

\* mri(argv): no options, so no alias, default, string or boolean handling.
mri(args) == mriLoop(args, 1, (Underscore :> Arr(<<>>)))

\* ------------------------------------------------------- promises, errors

NoError == [name |-> "", message |-> <<>>]
Pending == [state |-> "pending", value |-> Undefined, error |-> NoError]
Fulfilled(v) == [state |-> "fulfilled", value |-> v, error |-> NoError]
Rejected(e) == [state |-> "rejected", value |-> Undefined, error |-> e]

\* An error message is the sequence of the pieces it is concatenated from.
\* new Error(`Invalid command ${command}`)
InvalidCommand(name) == [name |-> "Error", message |-> <<"Invalid command ">> \o name]

\* What the engine throws when `commands[command]()` calls undefined.
NotAFunction == [name |-> "TypeError", message |-> <<"commands[command] is not a function">>]

\* What __defineGetter__ and __defineSetter__ throw when called with no argument.
ExpectingFunction(name) ==
  [name |-> "TypeError", message |-> <<"Object.prototype.">> \o name \o <<": Expecting function">>]

\* What the engine throws when `options.config` reads a property of undefined.
CannotReadConfig ==
  [name |-> "TypeError", message |-> <<"Cannot read properties of undefined (reading 'config')">>]

\* What the engine throws when `cmd.invoke(args)` calls undefined.
InvokeNotAFunction == [name |-> "TypeError", message |-> <<"cmd.invoke is not a function">>]

\* ------------------------------------------------------ command registry

dev == <<"d", "e", "v">>
build == <<"b", "u", "i", "l", "d">>
generate == <<"g", "e", "n", "e", "r", "a", "t", "e">>
deploy == <<"d", "e", "p", "l", "o", "y">>

toString == <<"t", "o", "S", "t", "r", "i", "n", "g">>
hasOwnProperty == <<"h", "a", "s", "O", "w", "n", "P", "r", "o", "p", "e", "r", "t", "y">>
constructor == <<"c", "o", "n", "s", "t", "r", "u", "c", "t", "o", "r">>
valueOf == <<"v", "a", "l", "u", "e", "O", "f">>
toLocaleString == <<"t", "o", "L", "o", "c", "a", "l", "e", "S", "t", "r", "i", "n", "g">>
isPrototypeOf == <<"i", "s", "P", "r", "o", "t", "o", "t", "y", "p", "e", "O", "f">>
propertyIsEnumerable == <<"p", "r", "o", "p", "e", "r", "t", "y", "I", "s", "E", "n", "u", "m",
                          "e", "r", "a", "b", "l", "e">>
\* __lookupGetter__, __lookupSetter__, __defineGetter__, __defineSetter__, __proto__
lookupGetter == <<"_", "_", "l", "o", "o", "k", "u", "p", "G", "e", "t", "t", "e", "r", "_", "_">>
lookupSetter == <<"_", "_", "l", "o", "o", "k", "u", "p", "S", "e", "t", "t", "e", "r", "_", "_">>
defineGetter == <<"_", "_", "d", "e", "f", "i", "n", "e", "G", "e", "t", "t", "e", "r", "_", "_">>
defineSetter == <<"_", "_", "d", "e", "f", "i", "n", "e", "S", "e", "t", "t", "e", "r", "_", "_">>
proto == <<"_", "_", "p", "r", "o", "t", "o", "_", "_">>

\* The keys of `commands`.
Registered == {dev, build, generate}

\* `commands` is an ordinary object, so `commands[name]` also finds what every
\* object inherits from Object.prototype: its eleven methods, and __proto__,
\* which is an object and no function.
ObjectPrototypeMethods ==
  {constructor, defineGetter, defineSetter, hasOwnProperty, lookupGetter, lookupSetter,
   isPrototypeOf, propertyIsEnumerable, toString, valueOf, toLocaleString}

\* The inherited methods that throw when called with no argument.
ThrowingMethods == {defineGetter, defineSetter}

\* The command names a caller may pass: the registry's, one that is no
\* property of the registry at all, '', and the names of inherited properties.
CommandNames == Registered \cup {deploy, <<>>, proto} \cup ObjectPrototypeMethods

NoModule == [kind |-> "none", name |-> <<>>, error |-> NoError]
CommandModule(name) == [kind |-> "command", name |-> name, error |-> NoError]
UndefinedModule == [kind |-> "undefined", name |-> <<>>, error |-> NoError]
FailedModule(e) == [kind |-> "rejected", name |-> <<>>, error |-> e]
\* A truthy value that is no command: it has no invoke method.
ValueModule == [kind |-> "value", name |-> <<>>, error |-> NoError]
FalseModule == [kind |-> "false", name |-> <<>>, error |-> NoError]

LoaderErrors == {[name |-> "Error", message |-> <<"Cannot find module">>],
                 [name |-> "SyntaxError", message |-> <<"Unexpected token">>]}

\* How the promise of commands[name]() can settle: with the command of that
\* entry, with nothing (a module that exports no command), or rejected.
LoaderOutcomes(name) ==
  {CommandModule(name), UndefinedModule} \cup {FailedModule(e) : e \in LoaderErrors}

\* What an inherited method gives when called on `commands` with no argument:
\* hasOwnProperty(), isPrototypeOf() and propertyIsEnumerable() are false;
\* __lookupGetter__() and __lookupSetter__() are undefined; toString() and
\* toLocaleString() are '[object Object]', constructor() a new object and
\* valueOf() the registry itself, none with an invoke method.
InheritedResult(name) ==
  IF name \in {hasOwnProperty, isPrototypeOf, propertyIsEnumerable} THEN FalseModule
  ELSE IF name \in {lookupGetter, lookupSetter} THEN UndefinedModule
  ELSE ValueModule

\* How the awaited `commands[name]()` can settle.
CallOutcomes(name) ==
  IF name \in Registered THEN LoaderOutcomes(name) ELSE {InheritedResult(name)}

InvokeErrors == {[name |-> "Error", message |-> <<"build failed">>],
                 [name |-> "TypeError", message |-> <<"x is undefined">>]}

ReturnValues == {Undefined, Str(<<"o", "k">>)}

\* What cmd.invoke(args) can give, at once (a return, a throw) or as the state
\* its promise settles in.
InvokeOutcomes == {Fulfilled(v) : v \in ReturnValues} \cup {Rejected(e) : e \in InvokeErrors}

\* ----------------------------------------------------------- runCommand

clear == <<"c", "l", "e", "a", "r">>
config == <<"c", "o", "n", "f", "i", "g">>

\* obj[key], undefined for a key the object does not have
Get(obj, key) == IF key \in DOMAIN obj THEN obj[key] ELSE Undefined

\* runCommandArgs without `args.clear = false`.
runCommandArgsKeepsClear(args, opts) ==
  Put(mri(args), config, Get(opts, config))

\* runCommandArgs with `args.config = args.config || options.config`.
runCommandArgsKeepsConfig(args, opts) ==
  LET parsed == Put(mri(args), clear, False)
  IN IF Get(parsed, config).type = "undefined" THEN Put(parsed, config, Get(opts, config))
     ELSE parsed

\* const args = mri(argv); args.clear = false; args.config = options.config
runCommandArgs(args, opts) ==
  Put(Put(mri(args), clear, False), config, Get(opts, config))

\* One args object kept and reused by every call.
NewObjectShared(h) == 1

\* mri builds its result in a new object (`out = { _: [] }`) on every call.
NewObject(h) == Cardinality(DOMAIN h) + 1

\* The property lookup commands[command] goes through the prototype chain: it
\* is a function for a key of the registry and for an inherited method.
IsFunction(name) == name \in Registered \cup ObjectPrototypeMethods

\* `await commands[command]()` gives the loader's value, or throws its rejection.
\* With a value: `if (!cmd) throw new Error(...)`, else cmd.invoke(args) is called.
Invokes(c) == cmd[c].kind = "command"

\* AfterLoader with the loader's rejection caught and reported as an invalid command.
AfterLoaderReplacesError(name, module) == Rejected(InvalidCommand(name))

\* What runCommand's promise becomes once the awaited call has settled without
\* a command to invoke: its rejection, the invalid command error for a falsy
\* value, the engine's TypeError for a value without an invoke method.
AfterLoader(name, module) ==
  IF module.kind = "rejected" THEN Rejected(module.error)
  ELSE IF module.kind \in {"undefined", "false"} THEN Rejected(InvalidCommand(name))
  ELSE Rejected(InvokeNotAFunction)

\* `cmd.invoke(args)` with its `return` left out: a fulfilled invoke gives undefined.
ReturnOfDropped(result) ==
  IF result.state = "fulfilled" THEN Fulfilled(Undefined) ELSE result

\* `return cmd.invoke(args)`: the call's promise takes what invoke gave.
ReturnOf(result) == result

\* process.argv of the process: the runtime, the script, and the words after them.
ProcessArgv ==
  << <<"n", "o", "d", "e">>, <<"n", "u", "x", "i">>,
     <<"-", "-", "c", "l", "e", "a", "r">>, <<"-", "h", "p">> >>

\* argv = process.argv.slice(2) when the caller gives none.
ArgvOf(c) == IF argv[c].given THEN argv[c].value ELSE SubSeq(ProcessArgv, 3, Len(ProcessArgv))

OptionsOf(c) == options[c].value

\* runCommand up to its first await, or to the throw that ends it: lines 5 to 9.
\* `options.config` throws when options is undefined, after args.clear is set;
\* `commands[command]()` throws when the property is no function, or when the
\* function called throws.
Call(c) ==
  /\ pc[c] = "pending"
  /\ LET ref == NewObject(heap)
     IN /\ heap' = Put(heap, ref,
                       IF options[c].given THEN runCommandArgs(ArgvOf(c), OptionsOf(c))
                       ELSE Put(mri(ArgvOf(c)), clear, False))
        /\ argsRef' = [argsRef EXCEPT ![c] = ref]
  /\ IF ~options[c].given
     THEN /\ pc' = [pc EXCEPT ![c] = "settled"]
          /\ outcome' = [outcome EXCEPT ![c] = Rejected(CannotReadConfig)]
          /\ UNCHANGED loaderCalls
     ELSE IF ~IsFunction(command[c])
     THEN /\ pc' = [pc EXCEPT ![c] = "settled"]
          /\ outcome' = [outcome EXCEPT ![c] = Rejected(NotAFunction)]
          /\ UNCHANGED loaderCalls
     ELSE IF command[c] \in ThrowingMethods
     THEN /\ loaderCalls' = [loaderCalls EXCEPT ![c] = Append(@, command[c])]
          /\ pc' = [pc EXCEPT ![c] = "settled"]
          /\ outcome' = [outcome EXCEPT ![c] = Rejected(ExpectingFunction(command[c]))]
     ELSE /\ loaderCalls' = [loaderCalls EXCEPT ![c] = Append(@, command[c])]
          /\ pc' = [pc EXCEPT ![c] = "awaitLoader"]
          /\ UNCHANGED outcome
  /\ UNCHANGED <<command, argv, options, cmd, invokeCalls, invokeResult>>
  /\ UNCHANGED headVars

\* The awaited value of `commands[command]()` settles.
LoaderSettles(c) ==
  /\ pc[c] = "awaitLoader"
  /\ \E m \in CallOutcomes(loaderCalls[c][Len(loaderCalls[c])]) :
       cmd' = [cmd EXCEPT ![c] = m]
  /\ pc' = [pc EXCEPT ![c] = "loaded"]
  /\ UNCHANGED <<command, argv, options, heap, argsRef, loaderCalls, invokeCalls,
                 invokeResult, outcome>>
  /\ UNCHANGED headVars

\* runCommand resumes after the await: lines 9 to 13.  invoke is called with
\* args; it gives a promise that is still pending, or it returns a value or
\* throws there and then, which settles the call in the same step.
Resume(c) ==
  /\ pc[c] = "loaded"
  /\ IF Invokes(c)
     THEN /\ invokeCalls' = [invokeCalls EXCEPT ![c] =
                 Append(@, [cmd |-> cmd[c].name, ref |-> argsRef[c], args |-> heap[argsRef[c]]])]
          /\ \/ /\ pc' = [pc EXCEPT ![c] = "invoking"]
                /\ UNCHANGED <<invokeResult, outcome>>
             \/ \E r \in InvokeOutcomes :
                  /\ invokeResult' = [invokeResult EXCEPT ![c] = r]
                  /\ outcome' = [outcome EXCEPT ![c] = ReturnOf(r)]
                  /\ pc' = [pc EXCEPT ![c] = "settled"]
     ELSE /\ outcome' = [outcome EXCEPT ![c] = AfterLoader(command[c], cmd[c])]
          /\ pc' = [pc EXCEPT ![c] = "settled"]
          /\ UNCHANGED <<invokeCalls, invokeResult>>
  /\ UNCHANGED <<command, argv, options, heap, argsRef, loaderCalls, cmd>>
  /\ UNCHANGED headVars

\* The promise invoke returned settles; runCommand's own promise, which follows
\* it, is still pending.
InvokeSettles(c) ==
  /\ pc[c] = "invoking"
  /\ \E r \in InvokeOutcomes : invokeResult' = [invokeResult EXCEPT ![c] = r]
  /\ pc' = [pc EXCEPT ![c] = "returning"]
  /\ UNCHANGED <<command, argv, options, heap, argsRef, loaderCalls, cmd, invokeCalls,
                 outcome>>
  /\ UNCHANGED headVars

\* In a later microtask runCommand's promise takes the state of invoke's.
Return(c) ==
  /\ pc[c] = "returning"
  /\ outcome' = [outcome EXCEPT ![c] = ReturnOf(invokeResult[c])]
  /\ pc' = [pc EXCEPT ![c] = "settled"]
  /\ UNCHANGED <<command, argv, options, heap, argsRef, loaderCalls, cmd, invokeCalls,
                 invokeResult>>
  /\ UNCHANGED headVars

RunNext ==
  \E c \in Calls :
    Call(c) \/ LoaderSettles(c) \/ Resume(c) \/ InvokeSettles(c) \/ Return(c)

\* ------------------------------------------------------------- app head

charset == <<"c", "h", "a", "r", "s", "e", "t">>
viewport == <<"v", "i", "e", "w", "p", "o", "r", "t">>

\* - `charset`: `utf-8`
DefaultCharset == Str(<<"u", "t", "f", "-", "8">>)
\* - `viewport`: `width=device-width, initial-scale=1`
DefaultViewport == Str(<<"w", "i", "d", "t", "h", "=", "d", "e", "v", "i", "c", "e", "-",
                         "w", "i", "d", "t", "h", ",", " ", "i", "n", "i", "t", "i", "a", "l",
                         "-", "s", "c", "a", "l", "e", "=", "1">>)

Utf16 == Str(<<"u", "t", "f", "-", "1", "6">>)
Width500 == Str(<<"w", "i", "d", "t", "h", "=", "5", "0", "0", ",", " ", "i", "n", "i", "t",
                  "i", "a", "l", "-", "s", "c", "a", "l", "e", "=", "1">>)

EmptyObject == [k \in {} |-> Undefined]

\* The defaults Nuxt provides out of the box.
HeadDefaults == (charset :> DefaultCharset) @@ (viewport :> DefaultViewport)

\* resolveAppHead with the defaults used only when app.head sets nothing.
resolveAppHeadAllOrNothing(h) == IF DOMAIN h = {} THEN HeadDefaults ELSE h

\* The effective head: each key the user's app.head sets keeps the user's value,
\* each key it leaves out gets the default.
resolveAppHead(h) ==
  [k \in (DOMAIN h) \cup (DOMAIN HeadDefaults) |-> IF k \in DOMAIN h THEN h[k] ELSE HeadDefaults[k]]

titleKey == <<"t", "i", "t", "l", "e">>
titleTemplateKey == <<"t", "i", "t", "l", "e", "T", "e", "m", "p", "l", "a", "t", "e">>
meta == <<"m", "e", "t", "a">>

MyApp == <<"M", "y", " ", "A", "p", "p">>
SiteTitle == <<"S", "i", "t", "e", " ", "T", "i", "t", "l", "e">>
Separator == <<" ", "-", " ">>
Placeholder == <<"%", "s">>

\* meta: [{ name: 'description', content: 'My amazing site.' }], each entry kept
\* as the pair of its name and content.
ExampleMeta ==
  Arr(<<[type |-> "object", chars |-> <<>>,
         items |-> <<Str(<<"d", "e", "s", "c", "r", "i", "p", "t", "i", "o", "n">>),
                     Str(<<"M", "y", " ", "a", "m", "a", "z", "i", "n", "g", " ",
                           "s", "i", "t", "e", ".">>)>>]>>)

\* The object with the given keys, a key whose value is undefined left out.
HeadOf(cs, vp, t, tt, m) ==
  LET all == (charset :> cs) @@ (viewport :> vp) @@ (titleKey :> t)
             @@ (titleTemplateKey :> tt) @@ (meta :> m)
  IN [k \in {x \in DOMAIN all : all[x] # Undefined} |-> all[k]]

\* The app.head objects a nuxt.config may hold: each of charset, viewport,
\* title and a string titleTemplate unset or set, and the guide's example.
AppHeads ==
  {HeadOf(cs, vp, t, tt, Undefined) :
     cs \in {Undefined, Utf16, DefaultCharset},
     vp \in {Undefined, Width500, DefaultViewport},
     t \in {Undefined, Str(MyApp)},
     tt \in {Undefined, Str(Placeholder \o Separator \o SiteTitle)}}
  \cup {HeadOf(Utf16, Width500, Str(MyApp), Undefined, ExampleMeta)}

\* ------------------------------------------------------ title templates

Null == [type |-> "null", chars |-> <<>>, items |-> <<>>]
\* The function the guide gives as titleTemplate.
TemplateFunction == [type |-> "function", chars |-> <<>>, items |-> <<>>]

MyPage == <<"M", "y", " ", "P", "a", "g", "e">>
SomePage == <<"S", "o", "m", "e", " ", "P", "a", "g", "e">>

\* ToBoolean of a null, undefined or string value.
Truthy(v) == v.type = "string" /\ v.chars # <<>>

\* titleTemplateFn without its test of titleChunk.
titleTemplateFnUnconditional(titleChunk) ==
  Str(titleChunk.chars \o Separator \o SiteTitle)

\* (titleChunk) => titleChunk ? `${titleChunk} - Site Title` : 'Site Title'
titleTemplateFn(titleChunk) ==
  IF Truthy(titleChunk) THEN Str(titleChunk.chars \o Separator \o SiteTitle)
  ELSE Str(SiteTitle)

\* The first occurrence of `what` in s is replaced by `by`.
RECURSIVE ReplaceFirst(_, _, _)
ReplaceFirst(s, what, by) ==
  IF Len(s) < Len(what) THEN s
  ELSE IF SubSeq(s, 1, Len(what)) = what THEN by \o SubSeq(s, Len(what) + 1, Len(s))
  ELSE <<Head(s)>> \o ReplaceFirst(Tail(s), what, by)

\* The title the document gets: a function template is called with the title,
\* a string template has %s replaced by the title (by nothing without one),
\* and without a template the title stands as it is.
renderTitleTemplate(template, t) ==
  IF template.type = "undefined" THEN t
  ELSE IF template.type = "function" THEN titleTemplateFn(t)
  ELSE Str(ReplaceFirst(template.chars, Placeholder,
                        IF t.type = "string" THEN t.chars ELSE <<>>))

\* The titles useHead may give; null is the guide's "default to the site title".
Titles == {Null, Str(<<>>), Str(MyPage), Str(SomePage)}

\* The titles of useSeoMeta, useServerSeoMeta and <Title>: strings.
TitleStrings == {t \in Titles : t.type = "string"}

\* The string templates hold at most one placeholder.  Undefined is a useHead
\* that gives no titleTemplate.
TitleTemplates ==
  {Undefined, TemplateFunction, Str(Placeholder \o Separator \o SiteTitle),
   Str(SiteTitle \o Separator \o Placeholder), Str(SiteTitle)}

\* The current title: the one a component gave last (null included), else the
\* title of app.head, else none.
CurrentTitleOf(h, t) == IF t.type # "undefined" THEN t ELSE Get(h, titleKey)

\* The current titleTemplate: the one a component gave, else app.head's.
CurrentTitleTemplateOf(h, tt) == IF tt.type # "undefined" THEN tt ELSE Get(h, titleTemplateKey)

\* The document's title for an app.head, a component title and a component template.
DocumentTitleOf(h, t, tt) ==
  renderTitleTemplate(CurrentTitleTemplateOf(h, tt), CurrentTitleOf(h, t))

CurrentTitle == CurrentTitleOf(head, title)
CurrentTitleTemplate == CurrentTitleTemplateOf(head, titleTemplate)

\* defineNuxtConfig({ app: { head: h } }): the app starts with this head, no
\* component having set anything yet.
defineNuxtConfig(h) ==
  /\ head' = h
  /\ resolvedHead' = resolveAppHead(h)
  /\ title' = Undefined
  /\ titleTemplate' = Undefined
  /\ documentTitle' = DocumentTitleOf(h, Undefined, Undefined)
  /\ UNCHANGED runVars

\* useHead({ title: t }): the title a component gave last is the current one.
useHeadTitle(t) ==
  /\ title' = t
  /\ documentTitle' = DocumentTitleOf(head, t, titleTemplate)
  /\ UNCHANGED <<head, resolvedHead, titleTemplate>>
  /\ UNCHANGED runVars

\* useSeoMeta({ title: t }), and useServerSeoMeta({ title: t }) on the server
useSeoMeta(t) ==
  /\ title' = t
  /\ documentTitle' = DocumentTitleOf(head, t, titleTemplate)
  /\ UNCHANGED <<head, resolvedHead, titleTemplate>>
  /\ UNCHANGED runVars

\* <Title>{{ t }}</Title>
TitleComponent(t) ==
  /\ title' = t
  /\ documentTitle' = DocumentTitleOf(head, t, titleTemplate)
  /\ UNCHANGED <<head, resolvedHead, titleTemplate>>
  /\ UNCHANGED runVars

\* useHead({ titleTemplate: tt })
useHeadTitleTemplate(tt) ==
  /\ titleTemplate' = tt
  /\ documentTitle' = DocumentTitleOf(head, title, tt)
  /\ UNCHANGED <<head, resolvedHead, title>>
  /\ UNCHANGED runVars

HeadNext ==
  \/ \E h \in AppHeads : defineNuxtConfig(h)
  \/ \E t \in Titles : useHeadTitle(t)
  \/ \E t \in TitleStrings : useSeoMeta(t)
  \/ \E t \in TitleStrings : TitleComponent(t)
  \/ \E tt \in TitleTemplates : useHeadTitleTemplate(tt)

\* -------------------------------------------------------- specifications

\* The argv words a call is given: flags with and without a value, a negated
\* flag, a group of short flags, a positional word and the `--` separator.
\* None names `_` or a property every object inherits.
Tokens ==
  { <<"-", "-", "c", "l", "e", "a", "r">>,
    <<"-", "-", "c", "l", "e", "a", "r", "=", "o", "n">>,
    <<"-", "-", "n", "o", "-", "c", "l", "e", "a", "r">>,
    <<"-", "-", "c", "o", "n", "f", "i", "g">>,
    <<"a", ".", "t", "s">>,
    <<"-", "h", "p">>,
    <<"-", "-", "p", "o", "r", "t", "=", "3", "0", "0", "0">>,
    <<"-", "-">> }

\* The argv a caller passes: none, or up to MaxArgv words.
ArgvSet == {NotGiven} \cup {Given(a) : a \in UNION {[1..n -> Tokens] : n \in 0..MaxArgv}}

\* The options a caller passes: none, or an object with or without a config.
OptionsSet ==
  {NotGiven} \cup
  {Given(o) : o \in {EmptyObject, (config :> Str(<<"a", ".", "t", "s">>)),
                     (config :> Str(<<"b", ".", "t", "s">>))}}

\* The calls checked together when several are in flight.
ConcInputs ==
  { [command |-> dev, argv |-> Given(<< <<"-", "-", "c", "l", "e", "a", "r">> >>),
     options |-> Given((config :> Str(<<"a", ".", "t", "s">>)))],
    [command |-> build,
     argv |-> Given(<< <<"-", "-", "c", "o", "n", "f", "i", "g">>, <<"a", ".", "t", "s">> >>),
     options |-> Given(EmptyObject)],
    [command |-> dev,
     argv |-> Given(<< <<"-", "-", "p", "o", "r", "t", "=", "3", "0", "0", "0">> >>),
     options |-> Given((config :> Str(<<"b", ".", "t", "s">>)))] }

NoInput == [command |-> <<>>, argv |-> Given(<<>>), options |-> Given(EmptyObject)]

\* The head as it stands before any configuration or useHead.
InitHead ==
  /\ head = EmptyObject
  /\ resolvedHead = resolveAppHead(EmptyObject)
  /\ title = Undefined
  /\ titleTemplate = Undefined
  /\ documentTitle = DocumentTitleOf(EmptyObject, Undefined, Undefined)

\* The calls of `callers` are about to be made with the inputs `in` gives them.
InitRun(in, callers) ==
  /\ pc = [c \in Calls |-> IF c \in callers THEN "pending" ELSE "none"]
  /\ command = [c \in Calls |-> in[c].command]
  /\ argv = [c \in Calls |-> in[c].argv]
  /\ options = [c \in Calls |-> in[c].options]
  /\ heap = EmptyObject
  /\ argsRef = [c \in Calls |-> 0]
  /\ loaderCalls = [c \in Calls |-> <<>>]
  /\ cmd = [c \in Calls |-> NoModule]
  /\ invokeCalls = [c \in Calls |-> <<>>]
  /\ invokeResult = [c \in Calls |-> Pending]
  /\ outcome = [c \in Calls |-> Pending]

\* One call of runCommand, with any command name, argv and options.
Init ==
  /\ \E n \in CommandNames, a \in ArgvSet, o \in OptionsSet :
       InitRun([c \in Calls |-> IF c = 1 THEN [command |-> n, argv |-> a, options |-> o]
                                ELSE NoInput], {1})
  /\ InitHead

\* NCalls calls of runCommand in flight together.
InitConc ==
  /\ \E in \in [Calls -> ConcInputs] : InitRun(in, Calls)
  /\ InitHead

\* No call of runCommand: the head configuration alone.
InitHeadOnly ==
  /\ InitRun([c \in Calls |-> NoInput], {})
  /\ InitHead

Spec == Init /\ [][RunNext]_vars
SpecConc == InitConc /\ [][RunNext]_vars
SpecHead == InitHeadOnly /\ [][HeadNext]_vars

\* ----------------------------------------------------------------- claims

Settled(c) == pc[c] = "settled"
Invoked(c) == invokeCalls[c] # <<>>

\* C1: for a command name that is not a key of the registry, runCommand fails
\* with Error `Invalid command <command>`, and no command's invoke is called.
C1_InvalidCommandReported ==
  \A c \in Calls :
    (Settled(c) /\ command[c] \notin Registered) =>
      /\ outcome[c] = Rejected(InvalidCommand(command[c]))
      /\ ~Invoked(c)

\* C2: for a command name that is a key of the registry, runCommand calls the
\* loader of exactly that name, invokes the loaded command exactly once and no
\* other, and its result is the value invoke returns.
C2_DelegatesToCommand ==
  \A c \in Calls :
    (command[c] \in Registered /\ pc[c] \notin {"none", "pending"}) =>
      /\ \A i \in DOMAIN loaderCalls[c] : loaderCalls[c][i] = command[c]
      /\ options[c].given => loaderCalls[c] = <<command[c]>>
      /\ \A i \in DOMAIN invokeCalls[c] : invokeCalls[c][i].cmd = command[c]
      /\ (cmd[c].kind = "command" /\ pc[c] \in {"invoking", "returning", "settled"}) =>
            Len(invokeCalls[c]) = 1
      /\ (Settled(c) /\ invokeResult[c].state = "fulfilled") =>
            outcome[c] = Fulfilled(invokeResult[c].value)

\* C2's case: a registered command was loaded, invoked, and returned a value
\* other than undefined, which is the call's result.
C2_Witness ==
  \E c \in Calls :
    /\ Settled(c) /\ command[c] = build
    /\ Len(invokeCalls[c]) = 1
    /\ outcome[c] = Fulfilled(Str(<<"o", "k">>))

\* C3: no recovery or retry: the loader and invoke are each called at most once
\* in a call, and a failure of either is the call's failure, with the same error.
C3_NoRetryErrorsForwarded ==
  \A c \in Calls :
    /\ Len(loaderCalls[c]) <= 1
    /\ Len(invokeCalls[c]) <= 1
    /\ (Settled(c) /\ cmd[c].kind = "rejected") =>
          (outcome[c] = Rejected(cmd[c].error) /\ ~Invoked(c))
    /\ (Settled(c) /\ invokeResult[c].state = "rejected") =>
          outcome[c] = Rejected(invokeResult[c].error)

\* C3's case: one call whose loader failed and one whose invoke failed.
C3_Witness ==
  \E c1, c2 \in Calls :
    /\ Settled(c1) /\ cmd[c1].kind = "rejected" /\ outcome[c1].state = "rejected"
    /\ Settled(c2) /\ invokeResult[c2].state = "rejected" /\ outcome[c2].state = "rejected"

\* The first occurrence of %s in template s starts at position i.
PlaceholderAt(s, i) ==
  /\ i + 1 <= Len(s)
  /\ SubSeq(s, i, i + 1) = Placeholder
  /\ \A k \in 1..(i - 1) : SubSeq(s, k, k + 1) # Placeholder

\* C4: with a string titleTemplate the document title is the template with %s
\* replaced by the current title; with the guide's function it is what the
\* function returns for the title: `<title> - Site Title`, and the bare site
\* title for a missing (null) or empty title.
C4_TitleTemplating ==
  /\ (CurrentTitleTemplate.type = "string" /\ CurrentTitle.type = "string") =>
        LET s == CurrentTitleTemplate.chars
        IN \/ /\ \A i \in 1..Len(s) : ~PlaceholderAt(s, i)
              /\ documentTitle = CurrentTitleTemplate
           \/ \E i \in 1..Len(s) :
                /\ PlaceholderAt(s, i)
                /\ documentTitle =
                     Str(SubSeq(s, 1, i - 1) \o CurrentTitle.chars \o SubSeq(s, i + 2, Len(s)))
  /\ CurrentTitleTemplate.type = "function" =>
        IF CurrentTitle.type = "string" /\ CurrentTitle.chars # <<>>
        THEN documentTitle = Str(CurrentTitle.chars \o Separator \o SiteTitle)
        ELSE documentTitle = Str(SiteTitle)

\* C4's case: the function template met a null title, given over the title of
\* app.head, and gave the site title.
C4_Witness ==
  /\ titleTemplate.type = "function"
  /\ title = Null
  /\ Get(head, titleKey) = Str(MyApp)
  /\ documentTitle = Str(SiteTitle)

\* C5: the effective head has charset utf-8 and the default viewport where
\* app.head sets none; a key app.head sets has the user's value, and the other
\* key keeps its default.
C5_HeadDefaults ==
  /\ Get(resolvedHead, charset) =
       (IF charset \in DOMAIN head THEN head[charset] ELSE Str(<<"u", "t", "f", "-", "8">>))
  /\ Get(resolvedHead, viewport) =
       (IF viewport \in DOMAIN head THEN head[viewport] ELSE DefaultViewport)

\* C5's case: app.head sets charset alone; the viewport is the default.
C5_Witness ==
  /\ DOMAIN head = {charset}
  /\ resolvedHead[charset] = Utf16
  /\ resolvedHead[viewport] = DefaultViewport

\* C6: the args every invoke receives have clear === false, whatever argv says
\* about clear.
C6_ClearIsFalse ==
  \A c \in Calls : \A i \in DOMAIN invokeCalls[c] :
    Get(invokeCalls[c][i].args, clear) = False

\* C6's case: invoke was reached by a call whose argv sets clear to something
\* other than false.
C6_Witness ==
  \E c \in Calls :
    /\ Invoked(c)
    /\ Get(mri(ArgvOf(c)), clear) \notin {Undefined, False}

\* C7 as stated: the args every invoke receives have config equal to
\* options.config (undefined without one), whatever argv says about config, and
\* every other flag mri parsed, clear among them, is passed as parsed.
C7_OtherFlagsUnchanged ==
  \A c \in Calls : \A i \in DOMAIN invokeCalls[c] :
    LET passed == invokeCalls[c][i].args
        parsed == mri(ArgvOf(c))
    IN /\ Get(passed, config) = Get(OptionsOf(c), config)
       /\ \A k \in (DOMAIN parsed) \ {config} : Get(passed, k) = parsed[k]

\* C7 as amended: the args every invoke receives have config equal to
\* options.config (undefined without one), whatever argv says about config, and
\* every parsed flag other than clear and config as mri parsed it; no key is
\* added besides clear and config.
C7_ConfigFromOptions ==
  \A c \in Calls : \A i \in DOMAIN invokeCalls[c] :
    LET passed == invokeCalls[c][i].args
        parsed == mri(ArgvOf(c))
    IN /\ Get(passed, config) = Get(OptionsOf(c), config)
       /\ DOMAIN passed = (DOMAIN parsed) \cup {clear, config}
       /\ \A k \in (DOMAIN parsed) \ {clear, config} : passed[k] = parsed[k]

\* C7's case: invoke was reached by a call whose argv gives a config of its
\* own, different from options.config, and another flag besides clear.
C7_Witness ==
  \E c \in Calls :
    /\ Invoked(c)
    /\ Get(mri(ArgvOf(c)), config).type = "string"
    /\ Get(mri(ArgvOf(c)), config) # Get(OptionsOf(c), config)
    /\ (DOMAIN mri(ArgvOf(c))) \ {clear, config, Underscore} # {}

\* The args object a call's own argv and options give.
OwnArgs(c) ==
  [k \in (DOMAIN mri(ArgvOf(c))) \cup {clear, config} |->
     IF k = clear THEN False
     ELSE IF k = config THEN Get(OptionsOf(c), config)
     ELSE mri(ArgvOf(c))[k]]

\* C8: with several calls in flight, the args each invoke receives come from
\* that call's own argv and options alone, and no two calls share an args object.
C8_CallsIsolated ==
  /\ \A c \in Calls : \A i \in DOMAIN invokeCalls[c] :
       /\ invokeCalls[c][i].args = OwnArgs(c)
       /\ invokeCalls[c][i].ref = argsRef[c]
  /\ \A c1, c2 \in Calls :
       (c1 # c2 /\ argsRef[c1] # 0 /\ argsRef[c2] # 0) => argsRef[c1] # argsRef[c2]

\* C8's case: two calls with different inputs were suspended at the loader
\* together, and both have gone on to invoke.
C8_Witness ==
  \E c1, c2 \in Calls :
    /\ c1 # c2
    /\ pc[c1] = "invoking" /\ pc[c2] = "invoking"
    /\ OwnArgs(c1) # OwnArgs(c2)

====
